---------------------------- MODULE Spec2Model ----------------------------
(***************************************************************************)
(* PDF -> RIP converter (src/App.tsx): the React component App, its        *)
(* handlers handleFileSelect / convertToRIP and the artifact synthesizer   *)
(* generateRIPFiles.                                                       *)
(*                                                                         *)
(* JavaScript numbers are IEEE-754 binary64.  The size arithmetic of       *)
(* generateRIPFiles (division, subtraction, addition, multiplication,      *)
(* remainder, floor, ceil) is modelled bit-exactly: a Number is a sign, a  *)
(* natural mantissa held as a little-endian sequence of 15-bit limbs, and  *)
(* a binary exponent; every operation computes the exact result and        *)
(* rounds it to 53 significant bits, ties to even.  Math.sin / Math.cos    *)
(* are implementation-approximated in ECMAScript; they are modelled in     *)
(* fixed point (four decimals).  Math.random() is a draw k / RandSteps.    *)
(***************************************************************************)
EXTENDS Integers, Sequences, FiniteSets, TLC

(***************************************************************************)
(* Natural numbers of arbitrary size: little-endian limbs, no leading      *)
(* zero limb, zero is << >>.                                               *)
(***************************************************************************)
LimbBits == 16 - 1
LimbBase == 2^15

Max(a, b) == IF a >= b THEN a ELSE b
Min(a, b) == IF a <= b THEN a ELSE b
Abs(n) == IF n < 0 THEN -n ELSE n

RECURSIVE BigTrim(_)
BigTrim(a) ==
  IF a = << >> THEN << >>
  ELSE IF a[Len(a)] = 0 THEN BigTrim(SubSeq(a, 1, Len(a) - 1)) ELSE a

RECURSIVE BigFromNat(_)
BigFromNat(n) ==
  IF n = 0 THEN << >> ELSE <<n % LimbBase>> \o BigFromNat(n \div LimbBase)

RECURSIVE BigToNat(_)
BigToNat(a) == IF a = << >> THEN 0 ELSE a[1] + LimbBase * BigToNat(Tail(a))

Limb(a, i) == IF i <= Len(a) THEN a[i] ELSE 0

RECURSIVE BigAddFrom(_, _, _, _)
BigAddFrom(a, b, i, c) ==
  IF i > Len(a) /\ i > Len(b)
  THEN (IF c = 0 THEN << >> ELSE <<c>>)
  ELSE LET s == Limb(a, i) + Limb(b, i) + c
       IN  <<s % LimbBase>> \o BigAddFrom(a, b, i + 1, s \div LimbBase)

BigAdd(a, b) == BigAddFrom(a, b, 1, 0)

\* a - b for a >= b
RECURSIVE BigSubFrom(_, _, _, _)
BigSubFrom(a, b, i, c) ==
  IF i > Len(a) THEN << >>
  ELSE LET s == a[i] - Limb(b, i) - c
       IN  IF s < 0 THEN <<s + LimbBase>> \o BigSubFrom(a, b, i + 1, 1)
                    ELSE <<s>> \o BigSubFrom(a, b, i + 1, 0)

BigSub(a, b) == BigTrim(BigSubFrom(a, b, 1, 0))

\* -1, 0, 1 as a < b, a = b, a > b
RECURSIVE BigCmpFrom(_, _, _)
BigCmpFrom(a, b, i) ==
  IF i = 0 THEN 0
  ELSE IF a[i] < b[i] THEN -1
  ELSE IF a[i] > b[i] THEN 1
  ELSE BigCmpFrom(a, b, i - 1)

BigCmp(a, b) ==
  IF Len(a) < Len(b) THEN -1
  ELSE IF Len(a) > Len(b) THEN 1
  ELSE BigCmpFrom(a, b, Len(a))

\* a * s + c for a limb-sized s
RECURSIVE BigMulSmallFrom(_, _, _, _)
BigMulSmallFrom(a, s, i, c) ==
  IF i > Len(a)
  THEN (IF c = 0 THEN << >> ELSE <<c>>)
  ELSE LET p == a[i] * s + c
       IN  <<p % LimbBase>> \o BigMulSmallFrom(a, s, i + 1, p \div LimbBase)

BigMulSmall(a, s) == IF s = 0 THEN << >> ELSE BigMulSmallFrom(a, s, 1, 0)

BigShlLimbs(a, k) == IF a = << >> THEN << >> ELSE [i \in 1..k |-> 0] \o a

RECURSIVE BigMulFrom(_, _, _)
BigMulFrom(a, b, j) ==
  IF j > Len(b) THEN << >>
  ELSE BigAdd(BigShlLimbs(BigMulSmall(a, b[j]), j - 1), BigMulFrom(a, b, j + 1))

BigMul(a, b) == BigMulFrom(a, b, 1)

\* a * 2^n
BigShl(a, n) == BigShlLimbs(BigMulSmall(a, 2^(n % LimbBits)), n \div LimbBits)

\* floor(a / d) for a limb-sized d, from the top limb down, r the running remainder
RECURSIVE BigDivSmallFrom(_, _, _, _)
BigDivSmallFrom(a, d, i, r) ==
  IF i = 0 THEN << >>
  ELSE LET n == r * LimbBase + a[i]
       IN  BigDivSmallFrom(a, d, i - 1, n % d) \o <<n \div d>>

BigDivSmall(a, d) == BigTrim(BigDivSmallFrom(a, d, Len(a), 0))

\* floor(a / 2^n)
BigShr(a, n) ==
  LET k == n \div LimbBits
  IN  IF k >= Len(a) THEN << >>
      ELSE BigDivSmall(SubSeq(a, k + 1, Len(a)), 2^(n % LimbBits))

\* a mod 2^n
BigModPow2(a, n) ==
  LET k == n \div LimbBits
  IN  IF k >= Len(a) THEN a
      ELSE BigTrim(SubSeq(a, 1, k) \o <<a[k + 1] % (2^(n % LimbBits))>>)

\* bit j of a, bit 0 the lowest
BigBit(a, j) == (Limb(a, j \div LimbBits + 1) \div (2^(j % LimbBits))) % 2

RECURSIVE NatBitLen(_)
NatBitLen(n) == IF n = 0 THEN 0 ELSE 1 + NatBitLen(n \div 2)

BigBitLen(a) ==
  IF a = << >> THEN 0 ELSE LimbBits * (Len(a) - 1) + NatBitLen(a[Len(a)])

\* a mod d for a limb-sized d
RECURSIVE BigModSmallFrom(_, _, _, _)
BigModSmallFrom(a, d, i, r) ==
  IF i = 0 THEN r ELSE BigModSmallFrom(a, d, i - 1, (r * LimbBase + a[i]) % d)

BigModSmall(a, d) == BigModSmallFrom(a, d, Len(a), 0)

\* a mod b for b > 0, by subtracting b * 2^j for j downwards
RECURSIVE BigModFrom(_, _, _)
BigModFrom(a, b, j) ==
  IF j < 0 THEN a
  ELSE LET bj == BigShl(b, j)
       IN  IF BigCmp(a, bj) >= 0 THEN BigModFrom(BigSub(a, bj), b, j - 1)
                                 ELSE BigModFrom(a, b, j - 1)

BigMod(a, b) == BigModFrom(a, b, BigBitLen(a) - BigBitLen(b))

(***************************************************************************)
(* IEEE-754 binary64 values: (-1)^neg * m * 2^e, m of at most MantBits     *)
(* significant bits.  The values of this program stay far from the         *)
(* subnormal and overflow ranges.                                          *)
(***************************************************************************)
MantBits == 52 + 1

Dbl(neg, m, e) == [neg |-> neg /\ m # << >>, m |-> m, e |-> e]

\* the exact value (-1)^neg * m * 2^e (sticky: a nonzero part below m's
\* last bit was dropped) rounded to nearest, ties to even
Round53(neg, m, e, sticky) ==
  LET len == BigBitLen(m)
      s   == len - MantBits
  IN  IF s <= 0 THEN Dbl(neg, m, e)
      ELSE LET q    == BigShr(m, s)
               half == BigBit(m, s - 1) = 1
               low  == sticky \/ BigModPow2(m, s - 1) # << >>
               up   == half /\ (low \/ BigBit(q, 0) = 1)
           IN  Dbl(neg, IF up THEN BigAdd(q, <<1>>) ELSE q, e + s)

DFromInt(n) == Dbl(n < 0, BigFromNat(Abs(n)), 0)

DNeg(x) == Dbl(~x.neg, x.m, x.e)

DMul(x, y) == Round53(x.neg # y.neg, BigMul(x.m, y.m), x.e + y.e, FALSE)

DAdd(x, y) ==
  LET e  == Min(x.e, y.e)
      xm == BigShl(x.m, x.e - e)
      ym == BigShl(y.m, y.e - e)
  IN  IF x.neg = y.neg THEN Round53(x.neg, BigAdd(xm, ym), e, FALSE)
      ELSE IF BigCmp(xm, ym) >= 0 THEN Round53(x.neg, BigSub(xm, ym), e, FALSE)
      ELSE Round53(y.neg, BigSub(ym, xm), e, FALSE)

DSub(x, y) == DAdd(x, DNeg(y))

\* x / y for a divisor y # 0 whose mantissa is below 2^16 (every divisor of
\* this program is a small integer): the quotient is developed to at least
\* MantBits + 2 bits, the remainder is the sticky part
DDiv(x, y) ==
  IF x.m = << >> THEN Dbl(FALSE, << >>, 0)
  ELSE LET d == BigToNat(y.m)
           t == Max(0, MantBits + 2 + BigBitLen(y.m) - BigBitLen(x.m))
           n == BigShl(x.m, t)
       IN  Round53(x.neg # y.neg, BigDivSmall(n, d), x.e - y.e - t,
                   BigModSmall(n, d) # 0)

\* x % y for x >= 0, y > 0 (exact, as fmod)
DMod(x, y) ==
  LET e  == Min(x.e, y.e)
      xm == BigShl(x.m, x.e - e)
      ym == BigShl(y.m, y.e - e)
  IN  Dbl(FALSE, BigMod(xm, ym), e)

\* whether x has a fractional part
DHasFraction(x) == x.e < 0 /\ BigModPow2(x.m, -x.e) # << >>

DTrunc(x) ==
  IF x.e >= 0 THEN BigToNat(BigShl(x.m, x.e)) ELSE BigToNat(BigShr(x.m, -x.e))

\* Math.floor and Math.ceil, as integers
DFloor(x) ==
  IF x.neg THEN -(DTrunc(x) + (IF DHasFraction(x) THEN 1 ELSE 0)) ELSE DTrunc(x)

DCeil(x) ==
  IF x.neg THEN -DTrunc(x) ELSE DTrunc(x) + (IF DHasFraction(x) THEN 1 ELSE 0)

\* a decimal literal num/den of the source text
DLit(num, den) == DDiv(DFromInt(num), DFromInt(den))

\* the literals 0.3, 0.9, 0.1 of generateRIPFiles, and 1 and 1/2
Lit0_3 == DLit(3, 10)
Lit0_9 == DLit(9, 10)
Lit0_1 == DLit(1, 10)
LitHalf == DLit(1, 2)
LitOne == DFromInt(1)

(***************************************************************************)
(* Text.  A string is the sequence of its UTF-16 code units; every string  *)
(* of this program is ASCII, so TextEncoder.encode yields the same         *)
(* numbers as bytes.                                                       *)
(***************************************************************************)
\* "RICOH_GEN6_RIP_V3.2"
TxtPrtFormat ==
  <<82, 73, 67, 79, 72, 95, 71, 69, 78, 54, 95, 82, 73, 80, 95, 86, 51, 46, 50>>
\* "FILE_TYPE:PRINT_DATA"
TxtPrtFileType ==
  <<70, 73, 76, 69, 95, 84, 89, 80, 69, 58, 80, 82, 73, 78, 84, 95, 68, 65, 84, 65>>
\* "CREATED_BY:PDF_TO_RIP_CONVERTER"
TxtCreatedBy ==
  <<67, 82, 69, 65, 84, 69, 68, 95, 66, 89, 58, 80, 68, 70, 95, 84, 79, 95, 82, 73, 80, 95, 67, 79, 78, 86, 69, 82, 84, 69, 82>>
\* "TIMESTAMP:"
TxtTimestamp ==
  <<84, 73, 77, 69, 83, 84, 65, 77, 80, 58>>
\* "DPI:"
TxtDpi ==
  <<68, 80, 73, 58>>
\* "COLOR_MODE:"
TxtColorMode ==
  <<67, 79, 76, 79, 82, 95, 77, 79, 68, 69, 58>>
\* "COMPRESSION:"
TxtCompression ==
  <<67, 79, 77, 80, 82, 69, 83, 83, 73, 79, 78, 58>>
\* "PAGES:"
TxtPages ==
  <<80, 65, 71, 69, 83, 58>>
\* "PAGE_WIDTH:"
TxtPageWidth ==
  <<80, 65, 71, 69, 95, 87, 73, 68, 84, 72, 58>>
\* "PAGE_HEIGHT:"
TxtPageHeight ==
  <<80, 65, 71, 69, 95, 72, 69, 73, 71, 72, 84, 58>>
\* "BYTES_PER_PIXEL:"
TxtBytesPerPixel ==
  <<66, 89, 84, 69, 83, 95, 80, 69, 82, 95, 80, 73, 88, 69, 76, 58>>
\* "PRINT_HEAD_CONFIG:RICOH_GEN6"
TxtPrintHeadConfig ==
  <<80, 82, 73, 78, 84, 95, 72, 69, 65, 68, 95, 67, 79, 78, 70, 73, 71, 58, 82, 73, 67, 79, 72, 95, 71, 69, 78, 54>>
\* "NOZZLE_COUNT:1280"
TxtNozzleCount ==
  <<78, 79, 90, 90, 76, 69, 95, 67, 79, 85, 78, 84, 58, 49, 50, 56, 48>>
\* "DROP_SIZE:6PL"
TxtDropSize ==
  <<68, 82, 79, 80, 95, 83, 73, 90, 69, 58, 54, 80, 76>>
\* "FIRING_FREQUENCY:40KHZ"
TxtFiringFrequency ==
  <<70, 73, 82, 73, 78, 71, 95, 70, 82, 69, 81, 85, 69, 78, 67, 89, 58, 52, 48, 75, 72, 90>>
\* "PASS_COUNT:4"
TxtPassCount ==
  <<80, 65, 83, 83, 95, 67, 79, 85, 78, 84, 58, 52>>
\* "INTERLEAVE_MODE:ENABLED"
TxtInterleave ==
  <<73, 78, 84, 69, 82, 76, 69, 65, 86, 69, 95, 77, 79, 68, 69, 58, 69, 78, 65, 66, 76, 69, 68>>
\* "COLOR_SEPARATION:ENABLED"
TxtColorSeparation ==
  <<67, 79, 76, 79, 82, 95, 83, 69, 80, 65, 82, 65, 84, 73, 79, 78, 58, 69, 78, 65, 66, 76, 69, 68>>
\* "HALFTONE_METHOD:ERROR_DIFFUSION"
TxtHalftone ==
  <<72, 65, 76, 70, 84, 79, 78, 69, 95, 77, 69, 84, 72, 79, 68, 58, 69, 82, 82, 79, 82, 95, 68, 73, 70, 70, 85, 83, 73, 79, 78>>
\* "INK_DENSITY_CONTROL:ENABLED"
TxtInkDensity ==
  <<73, 78, 75, 95, 68, 69, 78, 83, 73, 84, 89, 95, 67, 79, 78, 84, 82, 79, 76, 58, 69, 78, 65, 66, 76, 69, 68>>
\* "DROPLET_PLACEMENT_DATA_START"
TxtPrtSentinel ==
  <<68, 82, 79, 80, 76, 69, 84, 95, 80, 76, 65, 67, 69, 77, 69, 78, 84, 95, 68, 65, 84, 65, 95, 83, 84, 65, 82, 84>>
\* "RICOH_GEN6_PREVIEW_V3.2"
TxtPvwFormat ==
  <<82, 73, 67, 79, 72, 95, 71, 69, 78, 54, 95, 80, 82, 69, 86, 73, 69, 87, 95, 86, 51, 46, 50>>
\* "FILE_TYPE:PREVIEW_DATA"
TxtPvwFileType ==
  <<70, 73, 76, 69, 95, 84, 89, 80, 69, 58, 80, 82, 69, 86, 73, 69, 87, 95, 68, 65, 84, 65>>
\* "COMPRESSION:90"
TxtPvwCompression ==
  <<67, 79, 77, 80, 82, 69, 83, 83, 73, 79, 78, 58, 57, 48>>
\* "PREVIEW_DATA_START"
TxtPvwSentinel ==
  <<80, 82, 69, 86, 73, 69, 87, 95, 68, 65, 84, 65, 95, 83, 84, 65, 82, 84>>
\* "CMYK"
TxtCMYK ==
  <<67, 77, 89, 75>>
\* "Grayscale"
TxtGrayscale ==
  <<71, 114, 97, 121, 115, 99, 97, 108, 101>>
\* "BlackWhite"
TxtBlackWhite ==
  <<66, 108, 97, 99, 107, 87, 104, 105, 116, 101>>
\* "RGB"
TxtRGB ==
  <<82, 71, 66>>
\* ".pdf"
TxtDotPdf ==
  <<46, 112, 100, 102>>
\* ".prt"
TxtDotPrt ==
  <<46, 112, 114, 116>>
\* ".prt.pvw"
TxtDotPrtPvw ==
  <<46, 112, 114, 116, 46, 112, 118, 119>>
\* "1970-01-01T00:00:"
TxtEpochMinute ==
  <<49, 57, 55, 48, 45, 48, 49, 45, 48, 49, 84, 48, 48, 58, 48, 48, 58>>

RECURSIVE DecimalDigits(_)
DecimalDigits(n) ==
  IF n < 10 THEN <<48 + n>> ELSE DecimalDigits(n \div 10) \o <<48 + (n % 10)>>

\* `${n}` for an integer n
NumberToString(n) == IF n < 0 THEN <<45>> \o DecimalDigits(-n) ELSE DecimalDigits(n)

\* n in decimal, zero-padded to w digits
RECURSIVE PadStart(_, _)
PadStart(digits, w) == IF Len(digits) >= w THEN digits ELSE PadStart(<<48>> \o digits, w)

\* Date.prototype.toISOString for an instant t (milliseconds since the epoch)
\* within the first minute of the epoch
ToISOString(t) ==
  TxtEpochMinute \o PadStart(DecimalDigits(t \div 1000), 2) \o <<46>>
    \o PadStart(DecimalDigits(t % 1000), 3) \o <<90>>

\* lines.join('\n') + '\n'
RECURSIVE JoinLines(_)
JoinLines(lines) ==
  IF lines = << >> THEN << >> ELSE Head(lines) \o <<10>> \o JoinLines(Tail(lines))

TextEncode(text) == text

\* whether pat occurs in text at position i
MatchAt(text, pat, i) ==
  i + Len(pat) - 1 <= Len(text) /\ SubSeq(text, i, i + Len(pat) - 1) = pat

\* String.prototype.replace(pat, ''): the first occurrence of pat removed
ReplaceFirstWithEmpty(text, pat) ==
  LET hits == {i \in 1..Len(text) : MatchAt(text, pat, i)}
  IN  IF hits = {} THEN text
      ELSE LET i == CHOOSE j \in hits : \A k \in hits : j <= k
           IN  SubSeq(text, 1, i - 1) \o SubSeq(text, i + Len(pat), Len(text))

(***************************************************************************)
(* Math.sin and Math.cos in fixed point: angles and values in units of     *)
(* 10^-4.                                                                  *)
(***************************************************************************)
TrigScale == 10^4
Pi4 == 31416
HalfPi4 == 15708

\* sin on [0, pi/2], Taylor series to the ninth power
SinQuadrant(x) ==
  LET x2 == (x * x) \div TrigScale
      t3 == ((x * x2) \div TrigScale) \div 6
      t5 == ((t3 * x2) \div TrigScale) \div 20
      t7 == ((t5 * x2) \div TrigScale) \div 42
      t9 == ((t7 * x2) \div TrigScale) \div 72
  IN  x - t3 + t5 - t7 + t9

Sin4(a) ==
  LET r == a % (2 * Pi4)
  IN  IF r <= HalfPi4 THEN SinQuadrant(r)
      ELSE IF r <= Pi4 THEN SinQuadrant(Pi4 - r)
      ELSE IF r <= Pi4 + HalfPi4 THEN -SinQuadrant(r - Pi4)
      ELSE -SinQuadrant(2 * Pi4 - r)

Cos4(a) == Sin4(a + HalfPi4)

\* x * k for a literal k given in units of 10^-4 (0.01 is 100), as an angle
Angle4(x, k4) == DFloor(DMul(x, DFromInt(k4)))

(***************************************************************************)
(* The program's data                                                      *)
(***************************************************************************)
DpiOptions == {300, 600, 1200, 2400}
ColorModes == {"CMYK", "Grayscale", "BlackWhite"}
MinCompression == 10
MaxCompression == 100
CompressionLevels == MinCompression..MaxCompression
NozzleCount == 1280
PreviewDpiCap == 300

InitialSettings == [dpi |-> 600, colorMode |-> "CMYK", compressionLevel |-> 80]
InitialStatus == [isConverting |-> FALSE, progress |-> 0, message |-> "", type |-> "info"]

Steps ==
  << "Carregando PDF...", "Extraindo paginas...", "Processando imagens...",
     "Aplicando configuracoes de cor...", "Ajustando resolucao...",
     "Gerando arquivo .prt...", "Gerando arquivo .prt.pvw...",
     "Finalizando arquivo..." >>

\* Math.round(x) for x >= 0
MathRound(x) == DFloor(DAdd(x, LitHalf))

\* Math.round((i / steps.length) * 100), for i = 0 .. steps.length - 1
ProgressValues ==
  SubSeq([j \in 1..Len(Steps) |->
            MathRound(DMul(DDiv(DFromInt(j - 1), DFromInt(Len(Steps))),
                           DFromInt(100)))],
         1, Len(Steps))

Progress(i) == ProgressValues[i + 1]

(***************************************************************************)
(* generateRIPFiles: sizes                                                 *)
(***************************************************************************)
BytesPerPixel(colorMode) ==
  IF colorMode = "CMYK" THEN 4 ELSE IF colorMode = "Grayscale" THEN 1 ELSE 1

CompressionRatio(compressionLevel) == DDiv(DFromInt(compressionLevel), DFromInt(100))

BaseImageSize(pageWidth, pageHeight, bytesPerPixel, numPages) ==
  pageWidth * pageHeight * bytesPerPixel * numPages

\* variant: the ratio is added instead of subtracted
CompressedImageSizeGrowing(baseImageSize, compressionLevel) ==
  DFloor(DMul(DFromInt(baseImageSize),
              DAdd(DAdd(LitOne, CompressionRatio(compressionLevel)), Lit0_3)))

\* Math.floor(baseImageSize * (1 - compressionRatio + 0.3))
CompressedImageSize(baseImageSize, compressionLevel) ==
  DFloor(DMul(DFromInt(baseImageSize),
              DAdd(DSub(LitOne, CompressionRatio(compressionLevel)), Lit0_3)))

PreviewDPI(dpi) == Min(dpi, PreviewDpiCap)

\* variant: Math.floor in place of Math.ceil
PreviewExtentRoundedDown(pageExtent, dpi) ==
  DFloor(DMul(DFromInt(pageExtent), DDiv(DFromInt(PreviewDPI(dpi)), DFromInt(dpi))))

\* Math.ceil(pageExtent * (previewDPI / settings.dpi))
PreviewExtent(pageExtent, dpi) ==
  DCeil(DMul(DFromInt(pageExtent), DDiv(DFromInt(PreviewDPI(dpi)), DFromInt(dpi))))

\* Math.floor(previewWidth * previewHeight * bytesPerPixel * pdf.numPages * 0.9)
PvwImageDataSize(previewWidth, previewHeight, bytesPerPixel, numPages) ==
  DFloor(DMul(DFromInt(previewWidth * previewHeight * bytesPerPixel * numPages),
              Lit0_9))

\* Math.floor(prtImageDataSize * 0.1)
ControlDataSize(prtImageDataSize) ==
  DFloor(DMul(DFromInt(prtImageDataSize), Lit0_1))

\* every size of one call, from the geometry and the settings
ImageSizes(pageWidth, pageHeight, numPages, s) ==
  LET bytesPerPixel == BytesPerPixel(s.colorMode)
      prtSize  == CompressedImageSize(
                    BaseImageSize(pageWidth, pageHeight, bytesPerPixel, numPages),
                    s.compressionLevel)
      previewWidth  == PreviewExtent(pageWidth, s.dpi)
      previewHeight == PreviewExtent(pageHeight, s.dpi)
  IN  [ bytesPerPixel    |-> bytesPerPixel,
        prtImageDataSize |-> prtSize,
        previewDPI       |-> PreviewDPI(s.dpi),
        previewWidth     |-> previewWidth,
        previewHeight    |-> previewHeight,
        pvwImageDataSize |-> PvwImageDataSize(previewWidth, previewHeight,
                                              bytesPerPixel, numPages),
        controlDataSize  |-> IF prtSize < 0 THEN 0 ELSE ControlDataSize(prtSize) ]

(***************************************************************************)
(* generateRIPFiles: headers                                               *)
(***************************************************************************)
\* `${settings.colorMode}`
ColorModeText(colorMode) ==
  CASE colorMode = "CMYK" -> TxtCMYK
    [] colorMode = "Grayscale" -> TxtGrayscale
    [] colorMode = "BlackWhite" -> TxtBlackWhite
    [] colorMode = "RGB" -> TxtRGB

PrtHeader(s, numPages, pageWidth, pageHeight, bytesPerPixel, now) ==
  TextEncode(JoinLines(<<
    TxtPrtFormat, TxtPrtFileType, TxtCreatedBy,
    TxtTimestamp \o ToISOString(now),
    TxtDpi \o NumberToString(s.dpi),
    TxtColorMode \o ColorModeText(s.colorMode),
    TxtCompression \o NumberToString(s.compressionLevel),
    TxtPages \o NumberToString(numPages),
    TxtPageWidth \o NumberToString(pageWidth),
    TxtPageHeight \o NumberToString(pageHeight),
    TxtBytesPerPixel \o NumberToString(bytesPerPixel),
    TxtPrintHeadConfig, TxtNozzleCount, TxtDropSize, TxtFiringFrequency,
    TxtPassCount, TxtInterleave, TxtColorSeparation, TxtHalftone,
    TxtInkDensity, TxtPrtSentinel >>))

PvwHeader(s, numPages, previewDPI, previewWidth, previewHeight, bytesPerPixel, now) ==
  TextEncode(JoinLines(<<
    TxtPvwFormat, TxtPvwFileType, TxtCreatedBy,
    TxtTimestamp \o ToISOString(now),
    TxtDpi \o NumberToString(previewDPI),
    TxtColorMode \o ColorModeText(s.colorMode),
    TxtPvwCompression,
    TxtPages \o NumberToString(numPages),
    TxtPageWidth \o NumberToString(previewWidth),
    TxtPageHeight \o NumberToString(previewHeight),
    TxtBytesPerPixel \o NumberToString(bytesPerPixel),
    TxtPvwSentinel >>))

(***************************************************************************)
(* generateRIPFiles: payload, preview and control bytes.  Byte sequences   *)
(* are 1-based here: element i + 1 is the array's index i.                 *)
(***************************************************************************)
\* the k-th Math.random() of one call, in units of 1 / RandSteps
RandSteps == 4
Draw(seed, k) == (seed + k) % RandSteps

\* a store into a Uint8Array element: the value modulo 2^8
ToUint8(v) == v % 256

\* sin(row * k) * cos(col * k) * 127 + 128, in units of 10^-4
Density4(row, col, k4) ==
  ((Sin4(Angle4(DFromInt(row), k4)) * Cos4(Angle4(col, k4))) \div TrigScale) * 127
    + 128 * TrigScale

\* Math.floor(density * (lo + Math.random() * span)), lo and span in units of 10^-3
Jittered(density4, lo3, span3, r) ==
  ((density4 \div 10) * (lo3 + ((span3 * r) \div RandSteps))) \div (10^6)

\* variant: the BlackWhite branch keeps the threshold instead of comparing
\* it with 128
PrtValueUnthresholded(i, prtImageDataSize, numPages, pageWidth, colorMode, r) ==
  LET pageOffset == DMod(DFromInt(i),
                         DDiv(DFromInt(prtImageDataSize), DFromInt(numPages)))
      row == DFloor(DDiv(pageOffset, DFromInt(pageWidth)))
      col == DMod(pageOffset, DFromInt(pageWidth))
  IN  IF colorMode = "CMYK"
      THEN Jittered(Density4(row, col, 100), 800, 400, r)
      ELSE IF colorMode = "Grayscale"
      THEN Jittered(Density4(row, col, 200), 700, 600, r)
      ELSE Density4(row, col, 1000) \div TrigScale

\* the value computed for prtImageData[i], before it is stored
PrtValue(i, prtImageDataSize, numPages, pageWidth, colorMode, r) ==
  LET pageOffset == DMod(DFromInt(i),
                         DDiv(DFromInt(prtImageDataSize), DFromInt(numPages)))
      row == DFloor(DDiv(pageOffset, DFromInt(pageWidth)))
      col == DMod(pageOffset, DFromInt(pageWidth))
  IN  IF colorMode = "CMYK"
      THEN Jittered(Density4(row, col, 100), 800, 400, r)
      ELSE IF colorMode = "Grayscale"
      THEN Jittered(Density4(row, col, 200), 700, 600, r)
      ELSE IF Density4(row, col, 1000) > 128 * TrigScale THEN 255 ELSE 0

UsesRandom(colorMode) == colorMode = "CMYK" \/ colorMode = "Grayscale"

PrtImageData(prtImageDataSize, numPages, pageWidth, colorMode, seed) ==
  [j \in 1..prtImageDataSize |->
     ToUint8(PrtValue(j - 1, prtImageDataSize, numPages, pageWidth, colorMode,
                      Draw(seed, j - 1)))]

\* variant: the index of the next preview byte is scaled
SourceIndexOfNext(i, pvwImageDataSize, prtImageDataSize) ==
  DFloor(DMul(DDiv(DFromInt(i + 1), DFromInt(pvwImageDataSize)),
              DFromInt(prtImageDataSize)))

\* Math.floor((i / pvwImageDataSize) * prtImageDataSize)
SourceIndex(i, pvwImageDataSize, prtImageDataSize) ==
  DFloor(DMul(DDiv(DFromInt(i), DFromInt(pvwImageDataSize)),
              DFromInt(prtImageDataSize)))

\* prtImageData[sourceIndex] || 0
PvwByte(prtImageData, sourceIndex) ==
  IF sourceIndex >= 0 /\ sourceIndex < Len(prtImageData)
  THEN prtImageData[sourceIndex + 1] ELSE 0

PvwImageData(prtImageData, pvwImageDataSize) ==
  [j \in 1..pvwImageDataSize |->
     PvwByte(prtImageData, SourceIndex(j - 1, pvwImageDataSize, Len(prtImageData)))]

\* Math.floor((nozzleIndex / 1280) * 255)
FiringDelay(nozzleIndex) ==
  DFloor(DMul(DDiv(DFromInt(nozzleIndex), DFromInt(NozzleCount)), DFromInt(255)))

\* variant: the droplet size is drawn in every color mode
DropletSizeAlwaysDrawn(colorMode, r) == (128 * RandSteps + 127 * r) \div RandSteps

\* Math.floor(128 + Math.random() * 127)
DropletSize(colorMode, r) ==
  IF colorMode = "BlackWhite" THEN 255 ELSE (128 * RandSteps + 127 * r) \div RandSteps

ControlByte(i, colorMode, r) ==
  ToUint8((FiringDelay(i % NozzleCount) + DropletSize(colorMode, r)) % 256)

\* drawsBefore: the Math.random() calls made before the control loop
ControlData(controlDataSize, colorMode, seed, drawsBefore) ==
  [j \in 1..controlDataSize |->
     ControlByte(j - 1, colorMode, Draw(seed, drawsBefore + j - 1))]

\* variant: the copy starts one element early
SetAtOneEarly(target, source, offset) ==
  [j \in 1..Len(target) |->
     IF j >= offset /\ j < offset + Len(source) THEN source[j - offset + 1]
     ELSE target[j]]

\* TypedArray.prototype.set(source, offset)
SetAt(target, source, offset) ==
  [j \in 1..Len(target) |->
     IF j > offset /\ j <= offset + Len(source) THEN source[j - offset] ELSE target[j]]

Zeroes(n) == [j \in 1..n |-> 0]

PrtResult(prtHeader, prtImageData, controlData) ==
  SetAt(SetAt(SetAt(Zeroes(Len(prtHeader) + Len(prtImageData) + Len(controlData)),
                    prtHeader, 0),
              prtImageData, Len(prtHeader)),
        controlData, Len(prtHeader) + Len(prtImageData))

PvwResult(pvwHeader, pvwImageData) ==
  SetAt(SetAt(Zeroes(Len(pvwHeader) + Len(pvwImageData)), pvwHeader, 0),
        pvwImageData, Len(pvwHeader))

(***************************************************************************)
(* Bounds of the model                                                     *)
(***************************************************************************)
MaxPages == 2        \* pages of a document
MaxDim == 2          \* page width and height, in pixels, of the small pages
TallHeight == 40     \* height of the one-pixel-wide tall page
MaxClock == 1        \* milliseconds between the two readings of the clock
MaxUiEvents == 2     \* file selections and settings changes of one run
MaxConversions == 2  \* clicks on the convert button of one run

(***************************************************************************)
(* Files, and what the PDF library reports for them                        *)
(***************************************************************************)
PdfType == "application/pdf"
NoFile == [name |-> << >>, type |-> "", numPages |-> 0]

\* "d<n>.pdf", a PDF document of n pages
PdfFile(n) == [name |-> <<100>> \o DecimalDigits(n) \o TxtDotPdf,
               type |-> PdfType, numPages |-> n]
\* "n.txt", not a PDF
TextFile == [name |-> <<110, 46, 116, 120, 116>>, type |-> "text/plain", numPages |-> 0]

PdfFiles == {PdfFile(n) : n \in 1..MaxPages}
Files == PdfFiles \cup {TextFile}

\* Math.ceil(viewport.width), Math.ceil(viewport.height) of page 1
SmallPages == (1..MaxDim) \X (1..MaxDim)
TallPages == {<<1, TallHeight>>}
UnitPages == {<<1, 1>>}

NoSizes == [bytesPerPixel |-> 0, prtImageDataSize |-> 0, previewDPI |-> 0,
            previewWidth |-> 0, previewHeight |-> 0, pvwImageDataSize |-> 0,
            controlDataSize |-> 0]

NoGen == [owner |-> 0, pc |-> "none", numPages |-> 0, pageWidth |-> 0,
          pageHeight |-> 0, sizes |-> NoSizes, seed |-> 0,
          prtHeader |-> << >>, pvwHeader |-> << >>, prtImageData |-> << >>,
          pvwImageData |-> << >>, controlData |-> << >>,
          prtResult |-> << >>, pvwResult |-> << >>]

VARIABLES
  selectedFile,  \* useState: the chosen file, NoFile for null
  previewUrl,    \* useState: the preview image, << >> for ''
  settings,      \* useState: ConversionSettings
  status,        \* useState: ConversionStatus
  previews,      \* handleFileSelect calls awaiting generatePreview
  convs,         \* convertToRIP calls: position, loop index, and the file and
                 \* settings of the render whose closure was clicked
  gen,           \* locals of the generateRIPFiles call that is in its
                 \* synchronous part (owner = 0: none is)
  downloads,     \* the files handed to the browser, in order
  uiEvents,      \* file selections and settings changes so far
  calc,          \* size arithmetic applied to given inputs
  ctl            \* control-data generation applied to given inputs

vars == <<selectedFile, previewUrl, settings, status, previews, convs, gen,
          downloads, uiEvents, calc, ctl>>

uiVars == <<selectedFile, previewUrl, settings, status, previews, uiEvents>>

NoCalc == [phase |-> "none", pageWidth |-> 0, pageHeight |-> 0, numPages |-> 0,
           settings |-> InitialSettings, sizes |-> NoSizes]
NoCtl == [phase |-> "none", prtImageDataSize |-> 0, colorMode |-> "", seed |-> 0,
          controlData |-> << >>]

(***************************************************************************)
(* The component after construction                                        *)
(***************************************************************************)
Init ==
  /\ selectedFile = NoFile
  /\ previewUrl = << >>
  /\ settings = InitialSettings
  /\ status = InitialStatus
  /\ previews = << >>
  /\ convs = << >>
  /\ gen = NoGen
  /\ downloads = << >>
  /\ uiEvents = 0
  /\ calc = NoCalc
  /\ ctl = NoCtl

\* an event handler or a timer runs only between the synchronous parts of
\* others: JavaScript runs each to completion
Idle == gen.owner = 0

UiEvent == Idle /\ uiEvents < MaxUiEvents /\ uiEvents' = uiEvents + 1

ErrorStatus(message) ==
  [isConverting |-> FALSE, progress |-> 0, message |-> message, type |-> "error"]

(***************************************************************************)
(* Settings controls                                                       *)
(***************************************************************************)
SetDpi(dpi) ==
  /\ UiEvent
  /\ dpi # settings.dpi
  /\ settings' = [settings EXCEPT !.dpi = dpi]
  /\ UNCHANGED <<selectedFile, previewUrl, status, previews, convs, gen, downloads,
                 calc, ctl>>

SetColorMode(colorMode) ==
  /\ UiEvent
  /\ colorMode # settings.colorMode
  /\ settings' = [settings EXCEPT !.colorMode = colorMode]
  /\ UNCHANGED <<selectedFile, previewUrl, status, previews, convs, gen, downloads,
                 calc, ctl>>

SetCompressionLevel(level) ==
  /\ UiEvent
  /\ level # settings.compressionLevel
  /\ settings' = [settings EXCEPT !.compressionLevel = level]
  /\ UNCHANGED <<selectedFile, previewUrl, status, previews, convs, gen, downloads,
                 calc, ctl>>

(***************************************************************************)
(* handleFileSelect and generatePreview                                    *)
(***************************************************************************)
HandleFileSelect(file) ==
  /\ UiEvent
  /\ IF file.type # PdfType
     THEN /\ status' = ErrorStatus("Por favor, selecione apenas arquivos PDF")
          /\ UNCHANGED <<selectedFile, previews>>
     ELSE /\ selectedFile' = file
          /\ previews' = Append(previews, file)
          /\ UNCHANGED status
  /\ UNCHANGED <<previewUrl, settings, convs, gen, downloads, calc, ctl>>

RemoveAt(seq, k) == SubSeq(seq, 1, k - 1) \o SubSeq(seq, k + 1, Len(seq))

\* generatePreview renders page 1: setPreviewUrl(canvas.toDataURL())
GeneratePreviewDone(k) ==
  /\ Idle
  /\ k \in 1..Len(previews)
  /\ previewUrl' = previews[k].name
  /\ previews' = RemoveAt(previews, k)
  /\ UNCHANGED <<selectedFile, settings, status, convs, gen, downloads, uiEvents,
                 calc, ctl>>

\* generatePreview's catch: the library or the document failed to load
GeneratePreviewFail(k) ==
  /\ Idle
  /\ k \in 1..Len(previews)
  /\ status' = ErrorStatus("Erro ao gerar preview do PDF")
  /\ previews' = RemoveAt(previews, k)
  /\ UNCHANGED <<selectedFile, previewUrl, settings, convs, gen, downloads,
                 uiEvents, calc, ctl>>

(***************************************************************************)
(* convertToRIP                                                            *)
(***************************************************************************)
\* the button's disabled attribute, and the handler's first line
ConvertEnabled == selectedFile # NoFile /\ ~status.isConverting

\* the click: both setStatus calls, up to the first await of the loop
ConvertStart ==
  /\ Idle
  /\ ConvertEnabled
  /\ Len(convs) < MaxConversions
  /\ status' = [isConverting |-> TRUE, progress |-> Progress(0),
                message |-> Steps[1], type |-> "info"]
  /\ convs' = Append(convs, [pc |-> "loop", i |-> 0, file |-> selectedFile,
                             settings |-> settings])
  /\ UNCHANGED <<selectedFile, previewUrl, settings, previews, gen, downloads,
                 uiEvents, calc, ctl>>

\* a timer of the loop fires: the next iteration's setStatus, or the call of
\* generateRIPFiles up to its first await
ConvertTick(k) ==
  /\ Idle
  /\ k \in 1..Len(convs)
  /\ convs[k].pc = "loop"
  /\ LET i == convs[k].i + 1
     IN  IF i < Len(Steps)
         THEN /\ status' = [status EXCEPT !.progress = Progress(i),
                                          !.message = Steps[i + 1]]
              /\ convs' = [convs EXCEPT ![k].i = i]
         ELSE /\ convs' = [convs EXCEPT ![k].i = i, ![k].pc = "load"]
              /\ UNCHANGED status
  /\ UNCHANGED <<selectedFile, previewUrl, settings, previews, gen, downloads,
                 uiEvents, calc, ctl>>

\* the catch block of convertToRIP
ConvertCatch(k, message) ==
  /\ status' = ErrorStatus(<<"Erro na conversao: ", message>>)
  /\ convs' = [convs EXCEPT ![k].pc = "failed"]
  /\ gen' = NoGen

\* file.arrayBuffer(), getDocument and getPage(1) resolve; pages: the page
\* sizes the library may report
LoadPdf(k, pages) ==
  /\ Idle
  /\ k \in 1..Len(convs)
  /\ convs[k].pc = "load"
  /\ \E wh \in pages :
       gen' = [NoGen EXCEPT !.owner = k, !.pc = "headers",
                            !.numPages = convs[k].file.numPages,
                            !.pageWidth = wh[1], !.pageHeight = wh[2]]
  /\ convs' = [convs EXCEPT ![k].pc = "generate"]
  /\ UNCHANGED <<uiVars, downloads, calc, ctl>>

\* one of them rejects, or window.pdfjsLib is not there
LoadFail(k) ==
  /\ Idle
  /\ k \in 1..Len(convs)
  /\ convs[k].pc = "load"
  /\ ConvertCatch(k, "load")
  /\ UNCHANGED <<selectedFile, previewUrl, settings, previews, downloads,
                 uiEvents, calc, ctl>>

\* variant: the call reads the settings of the latest render
LiveSettings == settings

\* the settings the running call of generateRIPFiles was passed
CallSettings == convs[gen.owner].settings

\* sizes and the two headers; t1, t2: the clock at the two new Date() calls
GenHeaders(t1, t2) ==
  /\ gen.pc = "headers"
  /\ t1 <= t2
  /\ LET s  == CallSettings
         sz == ImageSizes(gen.pageWidth, gen.pageHeight, gen.numPages, s)
     IN    gen' = [gen EXCEPT
                     !.pc = "prt",
                     !.sizes = sz,
                     !.prtHeader = PrtHeader(s, gen.numPages, gen.pageWidth,
                                             gen.pageHeight, sz.bytesPerPixel, t1),
                     !.pvwHeader = PvwHeader(s, gen.numPages, sz.previewDPI,
                                             sz.previewWidth, sz.previewHeight,
                                             sz.bytesPerPixel, t2)]
  /\ UNCHANGED <<uiVars, convs, downloads, calc, ctl>>

\* new Uint8Array(prtImageDataSize) and the loop that fills it; seed: where
\* the stream of Math.random stands
GenPrtImageData(seed) ==
  /\ gen.pc = "prt"
  /\ gen.sizes.prtImageDataSize >= 0
  /\ LET s == CallSettings
     IN    gen' = [gen EXCEPT
                     !.pc = "pvw",
                     !.seed = IF UsesRandom(s.colorMode) THEN seed ELSE 0,
                     !.prtImageData = PrtImageData(gen.sizes.prtImageDataSize,
                                                   gen.numPages, gen.pageWidth,
                                                   s.colorMode, seed)]
  /\ UNCHANGED <<uiVars, convs, downloads, calc, ctl>>

\* new Uint8Array of a negative length throws a RangeError
GenPrtImageDataThrows ==
  /\ gen.pc = "prt"
  /\ gen.sizes.prtImageDataSize < 0
  /\ ConvertCatch(gen.owner, "Invalid typed array length")
  /\ UNCHANGED <<selectedFile, previewUrl, settings, previews, downloads,
                 uiEvents, calc, ctl>>

GenPvwImageData ==
  /\ gen.pc = "pvw"
  /\ gen' = [gen EXCEPT
               !.pc = "control",
               !.pvwImageData = PvwImageData(gen.prtImageData,
                                             gen.sizes.pvwImageDataSize)]
  /\ UNCHANGED <<uiVars, convs, downloads, calc, ctl>>

DrawsOfPayload(colorMode, prtImageDataSize) ==
  IF UsesRandom(colorMode) THEN prtImageDataSize ELSE 0

GenControlData ==
  /\ gen.pc = "control"
  /\ LET s == CallSettings
     IN  gen' = [gen EXCEPT
                   !.pc = "assemble",
                   !.controlData =
                      ControlData(gen.sizes.controlDataSize, s.colorMode, gen.seed,
                                  DrawsOfPayload(s.colorMode,
                                                 gen.sizes.prtImageDataSize))]
  /\ UNCHANGED <<uiVars, convs, downloads, calc, ctl>>

GenAssemble ==
  /\ gen.pc = "assemble"
  /\ gen' = [gen EXCEPT
               !.pc = "return",
               !.prtResult = PrtResult(gen.prtHeader, gen.prtImageData,
                                       gen.controlData),
               !.pvwResult = PvwResult(gen.pvwHeader, gen.pvwImageData)]
  /\ UNCHANGED <<uiVars, convs, downloads, calc, ctl>>

\* back in convertToRIP: the two downloads and the final setStatus
ConvertDeliver ==
  /\ gen.pc = "return"
  /\ LET k == gen.owner
         baseName == ReplaceFirstWithEmpty(convs[k].file.name, TxtDotPdf)
     IN  /\ downloads' = downloads \o
              << [conv |-> k, name |-> baseName \o TxtDotPrt, data |-> gen.prtResult],
                 [conv |-> k, name |-> baseName \o TxtDotPrtPvw, data |-> gen.pvwResult] >>
         /\ convs' = [convs EXCEPT ![k].pc = "done"]
  /\ status' = [isConverting |-> FALSE, progress |-> 100,
                message |-> "Conversao concluida! Arquivos .prt e .prt.pvw gerados com sucesso!",
                type |-> "success"]
  /\ gen' = NoGen
  /\ UNCHANGED <<selectedFile, previewUrl, settings, previews, uiEvents, calc, ctl>>

\* the synchronous part of generateRIPFiles and the rest of convertToRIP, for
\* settings of the declared ranges (the length of prtImageData is then never
\* negative)
Generate(times, seeds) ==
  \/ \E t2 \in times : GenHeaders(0, t2)
  \/ \E seed \in seeds : GenPrtImageData(seed)
  \/ GenPvwImageData
  \/ GenControlData
  \/ GenAssemble
  \/ ConvertDeliver

\* the second clock readings (the first is the origin) and the positions of
\* the random stream that the calls of SpecRIP, SpecAny and SpecControl are
\* given
Times == 0..MaxClock
Seeds == {0, RandSteps - 1}

\* the positions of the slider the runs of Spec try
SliderStops == {MinCompression, MaxCompression}

Next ==
  \/ \E dpi \in DpiOptions : SetDpi(dpi)
  \/ \E colorMode \in ColorModes : SetColorMode(colorMode)
  \/ \E level \in SliderStops : SetCompressionLevel(level)
  \/ \E file \in Files : HandleFileSelect(file)
  \/ \E k \in 1..MaxUiEvents : GeneratePreviewDone(k)
  \/ \E k \in 1..MaxUiEvents : GeneratePreviewFail(k)
  \/ ConvertStart
  \/ \E k \in 1..MaxConversions : ConvertTick(k)
  \/ \E k \in 1..MaxConversions : LoadPdf(k, UnitPages)
  \/ \E k \in 1..MaxConversions : LoadFail(k)
  \/ Generate({0}, {0})

Spec == Init /\ [][Next]_vars

(***************************************************************************)
(* generateRIPFiles applied to given inputs: one call, from the point      *)
(* where convertToRIP's loop has ended and the call awaits the document.   *)
(***************************************************************************)
ValidSettings ==
  [dpi : DpiOptions, colorMode : ColorModes, compressionLevel : CompressionLevels]

\* the levels the calls of SpecRIP are given
RipLevels == {MinCompression, InitialSettings.compressionLevel, MaxCompression}

CallState(file, s) ==
  /\ selectedFile = file
  /\ previewUrl = file.name
  /\ settings = s
  /\ status = [isConverting |-> TRUE, progress |-> Progress(Len(Steps) - 1),
               message |-> Steps[Len(Steps)], type |-> "info"]
  /\ previews = << >>
  /\ convs = << [pc |-> "load", i |-> Len(Steps), file |-> file, settings |-> s] >>
  /\ gen = NoGen
  /\ downloads = << >>
  /\ uiEvents = 1
  /\ calc = NoCalc
  /\ ctl = NoCtl

\* the page sizes reported to a call: the small pages at the two lower
\* resolutions, and the tall page for a one-page document at the lowest
\* compression
RipPages(c) ==
  (IF c.settings.dpi <= 2 * PreviewDpiCap THEN SmallPages ELSE {})
    \cup (IF c.file.numPages = 1 /\ c.settings.compressionLevel = MinCompression
          THEN TallPages ELSE {})

InitRIP ==
  \E file \in PdfFiles : \E s \in ValidSettings :
    /\ s.compressionLevel \in RipLevels
    /\ RipPages([file |-> file, settings |-> s]) # {}
    /\ CallState(file, s)

NextRIP ==
  \/ LoadPdf(1, RipPages(convs[1]))
  \/ LoadFail(1)
  \/ Generate(Times, Seeds)

SpecRIP == InitRIP /\ [][NextRIP]_vars

(***************************************************************************)
(* The same call given settings outside the declared ranges: the           *)
(* parameter's type is ConversionSettings, whose compressionLevel is any   *)
(* number and whose colorMode the select's handler casts from any string.  *)
(***************************************************************************)
RequestLevels ==
  {0, MinCompression - 1, MinCompression, MaxCompression, MaxCompression + 1,
   MaxCompression + 31}
RequestModes == ColorModes \cup {"RGB"}

InitAny ==
  \E file \in PdfFiles :
    \E s \in [dpi : DpiOptions, colorMode : RequestModes,
              compressionLevel : RequestLevels] :
      CallState(file, s)

NextAny ==
  \/ LoadPdf(1, SmallPages)
  \/ LoadFail(1)
  \/ Generate(Times, Seeds)
  \/ GenPrtImageDataThrows

SpecAny == InitAny /\ [][NextAny]_vars

(***************************************************************************)
(* The size arithmetic of generateRIPFiles applied to given inputs         *)
(***************************************************************************)
MaxSizeDim == 2
SizePages == ((1..MaxSizeDim) \X (1..MaxSizeDim)) \cup {<<5, 1>>, <<850, 1100>>}

InitSize ==
  /\ selectedFile = NoFile
  /\ previewUrl = << >>
  /\ settings = InitialSettings
  /\ status = InitialStatus
  /\ previews = << >>
  /\ convs = << >>
  /\ gen = NoGen
  /\ downloads = << >>
  /\ uiEvents = 0
  /\ ctl = NoCtl
  /\ \E wh \in SizePages : \E n \in 1..MaxPages : \E s \in ValidSettings :
       calc = [phase |-> "in", pageWidth |-> wh[1], pageHeight |-> wh[2],
               numPages |-> n, settings |-> s, sizes |-> NoSizes]

ComputeSizes ==
  /\ calc.phase = "in"
  /\ calc' = [calc EXCEPT
                !.phase = "out",
                !.sizes = ImageSizes(calc.pageWidth, calc.pageHeight,
                                     calc.numPages, calc.settings)]
  /\ UNCHANGED <<uiVars, convs, gen, downloads, ctl>>

SpecSize == InitSize /\ [][ComputeSizes]_vars

(***************************************************************************)
(* The control-data loop of generateRIPFiles applied to given payload      *)
(* lengths                                                                 *)
(***************************************************************************)
MaxPayload == 60
\* a payload long enough for the control data to pass the last nozzle
LongPayload == 10 * (NozzleCount + 30)
PayloadSizes == (0..MaxPayload) \cup {LongPayload}

InitControl ==
  /\ selectedFile = NoFile
  /\ previewUrl = << >>
  /\ settings = InitialSettings
  /\ status = InitialStatus
  /\ previews = << >>
  /\ convs = << >>
  /\ gen = NoGen
  /\ downloads = << >>
  /\ uiEvents = 0
  /\ calc = NoCalc
  /\ \E n \in PayloadSizes : \E colorMode \in ColorModes :
       \E seed \in Seeds :
         ctl = [phase |-> "in", prtImageDataSize |-> n, colorMode |-> colorMode,
                seed |-> seed, controlData |-> << >>]

GenerateControl ==
  /\ ctl.phase = "in"
  /\ ctl' = [ctl EXCEPT
               !.phase = "out",
               !.controlData =
                  ControlData(ControlDataSize(ctl.prtImageDataSize), ctl.colorMode,
                              ctl.seed,
                              DrawsOfPayload(ctl.colorMode, ctl.prtImageDataSize))]
  /\ UNCHANGED <<uiVars, convs, gen, downloads, calc>>

SpecControl == InitControl /\ [][GenerateControl]_vars
(***************************************************************************)
(* Properties of one call of generateRIPFiles (SpecRIP, SpecAny)           *)
(***************************************************************************)
\* prtImageData has been allocated and filled
PayloadFilled == gen.pc \in {"pvw", "control", "assemble", "return"}

\* C1: in BlackWhite mode, for every page geometry, page count and
\* compression level of the declared range, every byte of the primary payload
\* is exactly 0 or 255, at every index of the payload.
C1_BlackWhiteBytesAreBinary ==
  (PayloadFilled /\ CallSettings.colorMode = "BlackWhite") =>
    /\ Len(gen.prtImageData) = gen.sizes.prtImageDataSize
    /\ \A j \in 1..Len(gen.prtImageData) : gen.prtImageData[j] \in {0, 255}

\* a BlackWhite payload that holds both values
C1_Witness ==
  /\ PayloadFilled
  /\ CallSettings.colorMode = "BlackWhite"
  /\ \E j \in 1..Len(gen.prtImageData) : gen.prtImageData[j] = 0
  /\ \E j \in 1..Len(gen.prtImageData) : gen.prtImageData[j] = 255

\* C2: in CMYK and Grayscale mode every primary payload byte equals
\* floor(density * jitter) clamped to [0, 255]: a value above 255 is stored
\* as 255 and never reduced modulo 256.
C2_BytesAreClamped ==
  (PayloadFilled /\ UsesRandom(CallSettings.colorMode)) =>
    \A j \in 1..Len(gen.prtImageData) :
      gen.prtImageData[j] =
        Min(255, Max(0, PrtValue(j - 1, gen.sizes.prtImageDataSize, gen.numPages,
                                 gen.pageWidth, CallSettings.colorMode,
                                 Draw(gen.seed, j - 1))))

\* pvwImageData has been allocated and filled
PreviewFilled == gen.pc \in {"control", "assemble", "return"}

\* C3, as amended: when the primary payload is not empty, every preview index
\* i samples the primary index floor(i / previewLen * primaryLen), which lies
\* in [0, primaryLen), and the preview byte is the primary byte there; when
\* the primary payload is empty every preview byte is 0.
C3_SourceIndexInRangeOfNonEmptyPayload ==
  PreviewFilled =>
    /\ Len(gen.pvwImageData) = gen.sizes.pvwImageDataSize
    /\ \A j \in 1..Len(gen.pvwImageData) :
         LET sourceIndex == SourceIndex(j - 1, Len(gen.pvwImageData),
                                        Len(gen.prtImageData))
         IN  IF Len(gen.prtImageData) > 0
             THEN /\ sourceIndex \in 0..(Len(gen.prtImageData) - 1)
                  /\ gen.pvwImageData[j] = gen.prtImageData[sourceIndex + 1]
             ELSE gen.pvwImageData[j] = 0

\* a preview that samples its last byte beyond the first primary byte
C3_Witness ==
  /\ PreviewFilled
  /\ Len(gen.pvwImageData) > 1
  /\ Len(gen.prtImageData) > 1
  /\ SourceIndex(Len(gen.pvwImageData) - 1, Len(gen.pvwImageData),
                 Len(gen.prtImageData)) > 0

\* C3, as stated: for every preview index the sampled primary index lies in
\* [0, primaryLen), also when the primary payload is empty and the preview
\* payload is not.
C3_SourceIndexAlwaysInRange ==
  PreviewFilled =>
    \A j \in 1..Len(gen.pvwImageData) :
      LET sourceIndex == SourceIndex(j - 1, Len(gen.pvwImageData),
                                     Len(gen.prtImageData))
      IN  0 <= sourceIndex /\ sourceIndex < Len(gen.prtImageData)

\* C6: the primary output buffer is exactly header ++ payload ++ controlData
\* and the preview output buffer exactly header ++ payload: each length is
\* the sum of the parts' lengths and each part sits unmodified at its offset.
C6_BuffersAreConcatenations ==
  gen.pc = "return" =>
    /\ Len(gen.prtResult) =
         Len(gen.prtHeader) + Len(gen.prtImageData) + Len(gen.controlData)
    /\ Len(gen.pvwResult) = Len(gen.pvwHeader) + Len(gen.pvwImageData)
    /\ gen.prtResult = gen.prtHeader \o gen.prtImageData \o gen.controlData
    /\ gen.pvwResult = gen.pvwHeader \o gen.pvwImageData

\* an assembled call none of whose parts is empty
C6_Witness ==
  /\ gen.pc = "return"
  /\ Len(gen.prtHeader) > 0 /\ Len(gen.prtImageData) > 0 /\ Len(gen.controlData) > 0
  /\ Len(gen.pvwHeader) > 0 /\ Len(gen.pvwImageData) > 0
  /\ Len(gen.prtResult) > Len(gen.pvwResult)

(***************************************************************************)
(* Properties of the size arithmetic (SpecSize)                            *)
(***************************************************************************)
\* pageWidth * pageHeight * bytesPerPixel * pdf.numPages of the computed call
CalcBase ==
  BaseImageSize(calc.pageWidth, calc.pageHeight,
                BytesPerPixel(calc.settings.colorMode), calc.numPages)

\* C4: the primary payload length equals
\* floor(pageWidth * pageHeight * bytesPerPixel * pageCount *
\*       (1 - compressionLevel / 100 + 0.3)),
\* with 4 bytes per pixel for CMYK and 1 otherwise; for 850 x 1100, one page,
\* BlackWhite, compressionLevel 80 it is exactly 467500.
C4_PrimaryLengthIsExact ==
  calc.phase = "out" =>
    /\ calc.sizes.bytesPerPixel = (IF calc.settings.colorMode = "CMYK" THEN 4 ELSE 1)
    /\ calc.sizes.prtImageDataSize =
         (CalcBase * (130 - calc.settings.compressionLevel)) \div 100
    /\ ( /\ calc.pageWidth = 850 /\ calc.pageHeight = 1100 /\ calc.numPages = 1
         /\ calc.settings.colorMode = "BlackWhite"
         /\ calc.settings.compressionLevel = 80 )
       => calc.sizes.prtImageDataSize = 467500

\* page extent * min(dpi, 300) / dpi, rounded up
ScaledUp(pageExtent, dpi) ==
  (pageExtent * Min(dpi, PreviewDpiCap) + dpi - 1) \div dpi

\* C7: the preview payload length is
\* floor(previewWidth * previewHeight * bytesPerPixel * pageCount * 0.9), where
\* previewWidth and previewHeight are the page's scaled by min(dpi, 300) / dpi
\* and rounded up (850 x 1100 at dpi 600 gives 425 x 550); the length is the
\* same for every compressionLevel of the range.
C7_PreviewLength ==
  calc.phase = "out" =>
    /\ calc.sizes.previewWidth = ScaledUp(calc.pageWidth, calc.settings.dpi)
    /\ calc.sizes.previewHeight = ScaledUp(calc.pageHeight, calc.settings.dpi)
    /\ calc.sizes.pvwImageDataSize =
         (9 * ScaledUp(calc.pageWidth, calc.settings.dpi)
            * ScaledUp(calc.pageHeight, calc.settings.dpi)
            * BytesPerPixel(calc.settings.colorMode) * calc.numPages) \div 10
    /\ \A level \in {MinCompression, MaxCompression} :
         ImageSizes(calc.pageWidth, calc.pageHeight, calc.numPages,
                    [calc.settings EXCEPT !.compressionLevel = level]).pvwImageDataSize
           = calc.sizes.pvwImageDataSize
    /\ (calc.pageWidth = 850 /\ calc.pageHeight = 1100 /\ calc.settings.dpi = 600)
       => (calc.sizes.previewWidth = 425 /\ calc.sizes.previewHeight = 550)

\* the 850 x 1100 page at dpi 600, at a level other than the initial one
C7_Witness ==
  /\ calc.phase = "out"
  /\ calc.pageWidth = 850 /\ calc.pageHeight = 1100 /\ calc.settings.dpi = 600
  /\ calc.settings.compressionLevel = MaxCompression
  /\ calc.settings.colorMode = "BlackWhite" /\ calc.numPages = 1
  /\ calc.sizes.previewWidth = 425 /\ calc.sizes.previewHeight = 550
  /\ calc.sizes.pvwImageDataSize = 210375

\* C10: for fixed geometry and color mode the primary payload length is
\* non-increasing in compressionLevel, and strictly smaller at 100 than at 10
\* when pageWidth * pageHeight * bytesPerPixel * pageCount >= 2.  Every level
\* is compared with the next one; the levels of SpecSize are all of 10..100,
\* so the comparison of any c1 < c2 follows along the chain.
C10_LengthNonIncreasingInLevel ==
  calc.phase = "out" =>
    /\ calc.settings.compressionLevel < MaxCompression =>
         CompressedImageSize(CalcBase, calc.settings.compressionLevel + 1)
           <= calc.sizes.prtImageDataSize
    /\ (calc.settings.compressionLevel = MinCompression /\ CalcBase >= 2) =>
         CompressedImageSize(CalcBase, MaxCompression) < calc.sizes.prtImageDataSize

\* a size at the lowest level that the highest level makes smaller, and a size
\* that the next level leaves as it is
C10_Witness ==
  /\ calc.phase = "out"
  /\ CalcBase >= 2
  /\ calc.settings.compressionLevel = MinCompression
  /\ CompressedImageSize(CalcBase, MaxCompression) < calc.sizes.prtImageDataSize
  /\ CompressedImageSize(CalcBase, MinCompression + 1) = calc.sizes.prtImageDataSize

(***************************************************************************)
(* Properties of the control-data loop (SpecControl)                       *)
(***************************************************************************)
\* C5: the control block has exactly floor(primaryPayloadLength * 0.1) bytes,
\* and in BlackWhite mode its byte at index i is
\* (floor((i mod 1280) / 1280 * 255) + 255) mod 256, whatever the random
\* stream holds: runs with the same payload length give the same block.
C5_ControlData ==
  ctl.phase = "out" =>
    /\ Len(ctl.controlData) = ctl.prtImageDataSize \div 10
    /\ ctl.colorMode = "BlackWhite" =>
         \A j \in 1..Len(ctl.controlData) :
           ctl.controlData[j] =
             ((((j - 1) % 1280) * 255) \div 1280 + 255) % 256

\* a BlackWhite block that passes the last nozzle, at a stream position other
\* than the first
C5_Witness ==
  /\ ctl.phase = "out"
  /\ ctl.colorMode = "BlackWhite"
  /\ ctl.seed > 0
  /\ Len(ctl.controlData) > NozzleCount + 1
  /\ ctl.controlData[NozzleCount + 2] = ctl.controlData[2]
  /\ ctl.controlData[NozzleCount] # ctl.controlData[NozzleCount + 1]

(***************************************************************************)
(* Settings outside the declared ranges (SpecAny)                          *)
(***************************************************************************)
InvalidSettings(s) ==
  \/ s.compressionLevel \notin CompressionLevels
  \/ s.colorMode \notin ColorModes

ArtifactsOf(file, s, wh, t1, t2, seed) ==
  LET sz == ImageSizes(wh[1], wh[2], file.numPages, s)
      prtImageData == PrtImageData(sz.prtImageDataSize, file.numPages, wh[1],
                                   s.colorMode, seed)
  IN  [ prt |-> PrtResult(PrtHeader(s, file.numPages, wh[1], wh[2],
                                    sz.bytesPerPixel, t1),
                          prtImageData,
                          ControlData(sz.controlDataSize, s.colorMode, seed,
                                      DrawsOfPayload(s.colorMode,
                                                     sz.prtImageDataSize))),
        pvw |-> PvwResult(PvwHeader(s, file.numPages, sz.previewDPI,
                                    sz.previewWidth, sz.previewHeight,
                                    sz.bytesPerPixel, t2),
                          PvwImageData(prtImageData, sz.pvwImageDataSize)) ]

\* the two downloads of conversion k, made from the file and the settings of
\* the render in which it was started
SnapshotDownloads(k) ==
  LET c == convs[k]
      baseName == ReplaceFirstWithEmpty(c.file.name, TxtDotPdf)
  IN  { << [conv |-> k, name |-> baseName \o TxtDotPrt, data |-> a.prt],
           [conv |-> k, name |-> baseName \o TxtDotPrtPvw, data |-> a.pvw] >> :
          a \in { ArtifactsOf(c.file, c.settings, wh, 0, 0, 0) : wh \in UnitPages } }

\* C9: both artifacts of one conversion come from one snapshot: whatever the
\* user changes (dpi, colorMode, compressionLevel, the selected file) after
\* convertToRIP has started, in any interleaving with its awaited steps, the
\* .prt and the .prt.pvw it delivers are those of the settings and the file
\* that were current when it started, the same ones for both.
C9_ArtifactsFromOneSnapshot ==
  [][ gen.pc = "return" /\ gen'.pc = "none" =>
        \E pair \in SnapshotDownloads(gen.owner) : downloads' = downloads \o pair ]_vars

\* a conversion has delivered while the settings are no longer those it
\* started with
C9_Witness ==
  /\ Len(downloads) >= 2
  /\ convs[downloads[1].conv].pc = "done"
  /\ convs[downloads[1].conv].settings # settings
  /\ downloads[1].data # downloads[2].data

\* the convertToRIP calls that have started and not yet finished
InFlight == {k \in 1..Len(convs) : convs[k].pc \in {"loop", "load", "generate"}}

\* C11: whenever a convertToRIP call has started and not yet finished,
\* status.isConverting is true, in every interleaving with file selections
\* (handleFileSelect and generatePreview, their error paths included) and
\* settings changes; so the convert button stays disabled and at most one
\* conversion is in flight at any time.
C11_ConvertingWhileInFlight ==
  /\ InFlight # {} => status.isConverting
  /\ InFlight # {} => ~ConvertEnabled
  /\ Cardinality(InFlight) <= 1

=============================================================================
